---- MODULE Spec2Model ----
(***************************************************************************)
(* Aadhaar Service Stress API (backend/main.py): the in-memory dataset     *)
(* table `df` and the query handlers that filter and aggregate it.         *)
(*                                                                         *)
(* Numbers.  A float is a record [k, v]: k = "num" with v the value as an  *)
(* integer count of the unit of its column, k = "nan" for the float NaN    *)
(* (pandas' missing value), k = "null" for Python's None (JSON null).      *)
(*   service_stress_risk, child_update_pressure, elderly_update_pressure   *)
(*       unit 0.0001   (0.01 is 100, 0.025 is 250, 0.005 is 50)            *)
(*   biometric_to_enrolment_ratio                                          *)
(*       unit 0.01     (5 is 500, 8 is 800)                                *)
(*   percentile        unit 0.1     (round(p, 1))                          *)
(*   average_risk      unit 0.0001  (round(avg, 4))                        *)
(* Comparisons follow IEEE-754: every comparison with NaN is false.        *)
(***************************************************************************)
EXTENDS Integers, Sequences, FiniteSets, TLC

VARIABLES df, resp

vars == <<df, resp>>

\* resp before the first request: the endpoint answered, its arguments, the
\* HTTP status and the returned value
NoResponse == [endpoint |-> "", args |-> <<>>, status |-> 0, body |-> <<>>]

----------------------------------------------------------------------------
(* Values *)

Num(n) == [k |-> "num", v |-> n]

NaN == [k |-> "nan", v |-> 0]

None == [k |-> "null", v |-> 0]

\* pd.isna
isna(x) == x.k = "nan"

\* float < float and float > float
Lt(a, b) == a.k = "num" /\ b.k = "num" /\ a.v < b.v

Gt(a, b) == a.k = "num" /\ b.k = "num" /\ a.v > b.v

\* a missing string cell (pandas reads an empty CSV cell as NaN)
NaNStr == "<NaN>"

\* df[col] == value on a string column: NaN equals nothing
StrEq(cell, value) == cell # NaNStr /\ cell = value

\* Python's sorted() on strings and pandas' sorted group keys: position in
\* lexicographic order of the names the model uses.
NameOrder == <<"A", "B", "C", "S1", "S2">>

NameRank(s) == CHOOSE i \in 1..Len(NameOrder) : NameOrder[i] = s

\* round-half-even of n/d, n >= 0, d > 0 (Python's round() on an exactly
\* representable quotient; a decimal tie that is not exactly representable
\* falls to the side of its binary expansion, which this does not model).
RoundDiv(n, d) ==
    LET q == n \div d
        r == n % d
    IN  IF 2 * r < d THEN q
        ELSE IF 2 * r > d THEN q + 1
        ELSE IF q % 2 = 0 THEN q ELSE q + 1

----------------------------------------------------------------------------
(* Dates *)

\* df["date"].dt.date: the table holds calendar days
Days == {1, 2}

\* the date strings requests carry
DateStrings == {"2024-01-01", "2024-01-02T09:30", "2024-01-03", "junk"}

\* pd.to_datetime(date).date(): a parse failure raises; the time of day is
\* dropped by .date()
to_datetime(s) ==
    CASE s = "2024-01-01"       -> [ok |-> TRUE, day |-> 1]
      [] s = "2024-01-02T09:30" -> [ok |-> TRUE, day |-> 2]
      [] s = "2024-01-03"       -> [ok |-> TRUE, day |-> 3]
      [] OTHER                  -> [ok |-> FALSE, day |-> 0]

\* str(d.date())
DateStr(day) ==
    CASE day = 1 -> "2024-01-01"
      [] day = 2 -> "2024-01-02"
      [] OTHER   -> "2024-01-03"

----------------------------------------------------------------------------
(* Outcomes of a handler *)

\* a returned value, sent with status 200
Ok(body) == [status |-> 200, body |-> body]

\* raise HTTPException(status_code, detail)
HTTPException(code, detail) == [status |-> code, body |-> [detail |-> detail]]

\* an exception that leaves the handler: the server answers 500
Unhandled(exc) == [status |-> 500, body |-> [detail |-> exc]]

\* the matching rows in reverse table order: the row taken is the last one
LookupLast(state, district, day) ==
    LET rows == SelectSeq(df, LAMBDA r : /\ StrEq(r.state, state)
                                         /\ StrEq(r.district, district)
                                         /\ r.date = day)
    IN  [i \in 1..Len(rows) |-> rows[Len(rows) + 1 - i]]

\* the exact-match lookup shared by get_risk, get_risk_percentile,
\* get_policy_recommendation and get_risk_explanation
Lookup(state, district, day) ==
    SelectSeq(df, LAMBDA r : /\ StrEq(r.state, state)
                             /\ StrEq(r.district, district)
                             /\ r.date = day)

----------------------------------------------------------------------------
(* Geography lookup *)

\* the distinct values of a column over a sequence of rows
Unique(rows, col) == {rows[i][col] : i \in 1..Len(rows)}

\* sorted(list of names): comparing NaN (a float) with a str raises TypeError;
\* a list of one element is returned without any comparison
SortedNames(S) == SelectSeq(NameOrder, LAMBDA x : x \in S)

sorted_names(S) ==
    IF NaNStr \in S
    THEN IF Cardinality(S) >= 2 THEN Unhandled("TypeError") ELSE Ok(<<NaNStr>>)
    ELSE Ok(SortedNames(S))

get_states == sorted_names(Unique(df, "state"))

get_districts(state) ==
    sorted_names(Unique(SelectSeq(df, LAMBDA r : StrEq(r.state, state)), "district"))

DayOrder == <<1, 2, 3>>

get_dates(state, district) ==
    LET rows  == SelectSeq(df, LAMBDA r : StrEq(r.state, state) /\ StrEq(r.district, district))
        dates == Unique(rows, "date")
        days  == SelectSeq(DayOrder, LAMBDA d : d \in dates)
    IN  Ok([i \in 1..Len(days) |-> DateStr(days[i])])

----------------------------------------------------------------------------
(* Risk lookup *)

safe_float(val) == IF isna(val) THEN None ELSE val

get_risk(state, district, date) ==
    LET d == to_datetime(date) IN
    IF ~d.ok THEN Unhandled("ValueError")
    ELSE LET row == Lookup(state, district, d.day) IN
         IF Len(row) = 0 THEN Ok([error |-> "No data found"])
         ELSE LET r == row[1] IN
              Ok([risk_score       |-> safe_float(r.service_stress_risk),
                  bio_ratio        |-> safe_float(r.biometric_to_enrolment_ratio),
                  child_pressure   |-> safe_float(r.child_update_pressure),
                  elderly_pressure |-> safe_float(r.elderly_update_pressure)])

\* thresholds of get_risk_verdict, unit 0.0001
VerdictLow == 100

VerdictMedium == 300

\* the thresholds taken inclusively
get_risk_verdict_inclusive(risk_score) ==
    IF ~Gt(risk_score, Num(VerdictLow)) /\ ~isna(risk_score) THEN Ok([verdict |-> "LOW"])
    ELSE IF ~Gt(risk_score, Num(VerdictMedium)) /\ ~isna(risk_score)
    THEN Ok([verdict |-> "MEDIUM"])
    ELSE Ok([verdict |-> "HIGH"])

get_risk_verdict(risk_score) ==
    IF Lt(risk_score, Num(VerdictLow)) THEN Ok([verdict |-> "LOW"])
    ELSE IF Lt(risk_score, Num(VerdictMedium)) THEN Ok([verdict |-> "MEDIUM"])
    ELSE Ok([verdict |-> "HIGH"])

\* rows at or below the current risk, the current row among them
CountAtOrBelow(rows, x) ==
    Cardinality({i \in 1..Len(rows) : ~Gt(rows[i].service_stress_risk, x)
                                       /\ ~isna(rows[i].service_stress_risk)})

\* (date_data["service_stress_risk"] < current_risk).sum()
CountBelow(rows, x) ==
    Cardinality({i \in 1..Len(rows) : Lt(rows[i].service_stress_risk, x)})

get_risk_percentile(state, district, date) ==
    LET d == to_datetime(date) IN
    IF ~d.ok THEN Unhandled("ValueError")
    ELSE LET date_data   == SelectSeq(df, LAMBDA r : r.date = d.day)
             current_row == Lookup(state, district, d.day)
         IN  IF Len(date_data) = 0
             THEN Ok([percentile |-> 0, comparison |-> "No data available"])
             ELSE IF Len(current_row) = 0
             THEN Ok([percentile |-> 0, comparison |-> "No data for this district"])
             ELSE LET current_risk == current_row[1].service_stress_risk IN
                  IF isna(current_risk)
                  THEN Ok([percentile |-> 0, comparison |-> "No data"])
                  ELSE Ok([percentile |-> RoundDiv(CountBelow(date_data, current_risk) * 1000,
                                                   Len(date_data)),
                           comparison |-> "Riskier than"])

----------------------------------------------------------------------------
(* Ranking and trend *)

RECURSIVE SumSeq(_)
SumSeq(s) == IF Len(s) = 0 THEN 0 ELSE s[1].v + SumSeq(Tail(s))

\* the mean with a missing cell counted as zero
mean_fillna(rows, col) ==
    LET cells == [i \in 1..Len(rows) |-> rows[i][col]]
        vals  == SelectSeq(cells, LAMBDA x : ~isna(x))
    IN  IF Len(vals) = 0 THEN [k |-> "nan", n |-> 0, d |-> 1]
        ELSE [k |-> "num", n |-> SumSeq(vals), d |-> Len(cells)]

\* Series.mean(): NaN cells are skipped; the mean of no value is NaN.  A mean
\* is kept exact, as the fraction n/d.
mean(rows, col) ==
    LET cells == [i \in 1..Len(rows) |-> rows[i][col]]
        vals  == SelectSeq(cells, LAMBDA x : ~isna(x))
    IN  IF Len(vals) = 0 THEN [k |-> "nan", n |-> 0, d |-> 1]
        ELSE [k |-> "num", n |-> SumSeq(vals), d |-> Len(vals)]

\* groupby("district"): one group per distinct non-missing key, keys sorted
GroupKeys(rows) == SortedNames(Unique(rows, "district") \ {NaNStr})

groupby_mean(rows, col) ==
    LET keys == GroupKeys(rows) IN
    [i \in 1..Len(keys) |->
        [district |-> keys[i],
         avg      |-> mean(SelectSeq(rows, LAMBDA r : r.district = keys[i]), col)]]

\* a > b on exact means
MeanGt(a, b) == a.k = "num" /\ b.k = "num" /\ a.n * b.d > b.n * a.d

\* sort_values(ascending=False) with the default kind="quicksort", which is not
\* stable: every arrangement in non-increasing order, NaN last, is possible.
sort_values_desc(means) ==
    {p \in Permutations(1..Len(means)) :
        \A i, j \in 1..Len(means) :
            i < j => /\ ~MeanGt(means[p[j]], means[p[i]])
                     /\ (means[p[i]].k = "nan" => means[p[j]].k = "nan")}

\* the column of means of a grouped table
Column(rows, col) == [i \in 1..Len(rows) |-> rows[i][col]]

\* Series.head(n): the first n, or all but the last -n when n < 0
head(len, n) == IF n >= 0 THEN (IF n < len THEN n ELSE len)
                ELSE (IF len + n > 0 THEN len + n ELSE 0)

\* round(float(risk), 4)
round4(m) == IF m.k = "nan" THEN NaN ELSE Num(RoundDiv(m.n, m.d))

ranked(avg, p, limit) ==
    [i \in 1..head(Len(avg), limit) |->
        [district |-> avg[p[i]].district, average_risk |-> round4(avg[p[i]].avg)]]

get_top_districts(limit, p) ==
    Ok(ranked(groupby_mean(df, "service_stress_risk"), p, limit))

get_district_hotspots(state, limit, p) ==
    LET state_data == SelectSeq(df, LAMBDA r : StrEq(r.state, state)) IN
    IF Len(state_data) = 0 THEN Ok(<<>>)
    ELSE Ok(ranked(groupby_mean(state_data, "service_stress_risk"), p, limit))

\* sort_values("date"), quicksort again: rows of one date in any order
sort_values_date(rows) ==
    {p \in Permutations(1..Len(rows)) :
        \A i, j \in 1..Len(rows) : i < j => rows[p[i]].date <= rows[p[j]].date}

trend_data(state, district) ==
    SelectSeq(df, LAMBDA r : StrEq(r.state, state) /\ StrEq(r.district, district))

get_risk_trend(state, district, p) ==
    LET data == trend_data(state, district) IN
    IF Len(data) = 0 THEN Ok([error |-> "No data found"])
    ELSE Ok([data |-> [i \in 1..Len(data) |->
                [date       |-> DateStr(data[p[i]].date),
                 risk_score |-> IF ~isna(data[p[i]].service_stress_risk)
                                THEN data[p[i]].service_stress_risk ELSE None]]])

----------------------------------------------------------------------------
(* Policy templaters.  A text is the sequence of its lines; a line is       *)
(* [idx, tag, text, value]: idx the number of a numbered block (0 for an    *)
(* unnumbered line), tag its priority or band, value the number the         *)
(* template interpolates (None when it interpolates none).                  *)

Line(idx, tag, text, value) == [idx |-> idx, tag |-> tag, text |-> text, value |-> value]

\* float(r[col]) if not pd.isna(r[col]) else 0
coerce(val) == IF ~isna(val) THEN val ELSE Num(0)

\* thresholds of get_policy_recommendation
BioHigh == 800

BioMedium == 500

ChildMedium == 100

ChildLow == 50

ElderlyMedium == 100

ElderlyLow == 50

RiskCritical == 400

RiskHigh == 250

Rec(priority, title, value) == [priority |-> priority, title |-> title, value |-> value]

bio_recommendation(bio_ratio) ==
    IF Gt(bio_ratio, Num(BioHigh))
    THEN <<Rec("HIGH", "Infrastructure Capacity Enhancement", bio_ratio)>>
    ELSE IF Gt(bio_ratio, Num(BioMedium))
    THEN <<Rec("MEDIUM", "Staffing and Resource Optimization", bio_ratio)>>
    ELSE <<>>

child_recommendation(child_pressure) ==
    IF Gt(child_pressure, Num(ChildMedium))
    THEN <<Rec("MEDIUM", "Specialized Child Services Centers", child_pressure)>>
    ELSE IF Gt(child_pressure, Num(ChildLow))
    THEN <<Rec("LOW", "Child Services Enhancement", None)>>
    ELSE <<>>

elderly_recommendation(elderly_pressure) ==
    IF Gt(elderly_pressure, Num(ElderlyMedium))
    THEN <<Rec("MEDIUM", "Elderly-Focused Service Centers", elderly_pressure)>>
    ELSE IF Gt(elderly_pressure, Num(ElderlyLow))
    THEN <<Rec("LOW", "Elderly Services Improvement", None)>>
    ELSE <<>>

\* the urgency block appended instead of inserted at the front
risk_recommendation_append(recommendations, risk_score) ==
    IF Gt(risk_score, Num(RiskCritical))
    THEN recommendations \o <<Rec("CRITICAL", "Emergency Service Review", None)>>
    ELSE IF Gt(risk_score, Num(RiskHigh))
    THEN recommendations \o <<Rec("HIGH", "Service Load Balancing", None)>>
    ELSE recommendations

\* recommendations.insert(0, ...) on the overall risk
risk_recommendation(recommendations, risk_score) ==
    IF Gt(risk_score, Num(RiskCritical))
    THEN <<Rec("CRITICAL", "Emergency Service Review", None)>> \o recommendations
    ELSE IF Gt(risk_score, Num(RiskHigh))
    THEN <<Rec("HIGH", "Service Load Balancing", None)>> \o recommendations
    ELSE recommendations

\* the default block appended whatever the list holds
default_recommendation_always(recommendations) ==
    recommendations \o <<Rec("INFORMATIONAL", "Maintain Current Standards", None)>>

\* if not recommendations: the default block
default_recommendation(recommendations) ==
    IF Len(recommendations) = 0
    THEN <<Rec("INFORMATIONAL", "Maintain Current Standards", None)>>
    ELSE recommendations

\* the list of blocks built for a matched row
recommendations_for(r) ==
    LET risk_score       == coerce(r.service_stress_risk)
        bio_ratio        == coerce(r.biometric_to_enrolment_ratio)
        child_pressure   == coerce(r.child_update_pressure)
        elderly_pressure == coerce(r.elderly_update_pressure)
    IN  default_recommendation(
            risk_recommendation(
                bio_recommendation(bio_ratio)
                    \o child_recommendation(child_pressure)
                    \o elderly_recommendation(elderly_pressure),
                risk_score))

\* for idx, rec in enumerate(recommendations, 1), between header and timeline
format_recommendation(recommendations) ==
    <<Line(0, "", "Actionable Policy Recommendations for Administrative Authorities", None)>>
    \o [i \in 1..Len(recommendations) |->
            Line(i, recommendations[i].priority, recommendations[i].title,
                 recommendations[i].value)]
    \o <<Line(0, "", "Implementation Timeline", None)>>

\* the body of the try block
policy_recommendation_try(state, district, date) ==
    LET d == to_datetime(date) IN
    IF ~d.ok THEN Unhandled("ValueError")
    ELSE LET row == Lookup(state, district, d.day) IN
         IF Len(row) = 0
         THEN Ok([recommendation |->
                    <<Line(0, "", "No data available for recommendation", None)>>])
         ELSE Ok([recommendation |-> format_recommendation(recommendations_for(row[1]))])

\* except Exception as e: the fault becomes the text (its message is the tag)
get_policy_recommendation(state, district, date) ==
    LET out == policy_recommendation_try(state, district, date) IN
    IF out.status = 500
    THEN Ok([recommendation |->
                <<Line(0, out.body.detail, "Unable to generate recommendation", None)>>])
    ELSE out

\* thresholds of get_risk_explanation
ExplRiskMinimal == 10

ExplRiskLow == 100

ExplRiskModerate == 300

ExplBioExcellent == 200

ExplBioBalanced == 500

ExplBioHigh == 1000

ExplChildMinimal == 10

ExplChildLow == 100

ExplElderlyMinimal == 10

ExplElderlyLow == 100

risk_band(risk_score) ==
    IF Lt(risk_score, Num(ExplRiskMinimal)) THEN "exceptionally low"
    ELSE IF Lt(risk_score, Num(ExplRiskLow)) THEN "low"
    ELSE IF Lt(risk_score, Num(ExplRiskModerate)) THEN "moderate"
    ELSE "significant"

bio_band(bio_ratio) ==
    IF Lt(bio_ratio, Num(ExplBioExcellent)) THEN "excellent"
    ELSE IF Lt(bio_ratio, Num(ExplBioBalanced)) THEN "balanced"
    ELSE IF Lt(bio_ratio, Num(ExplBioHigh)) THEN "relatively high"
    ELSE "very high"

child_band(child_pressure) ==
    IF Lt(child_pressure, Num(ExplChildMinimal)) THEN "Minimal"
    ELSE IF Lt(child_pressure, Num(ExplChildLow)) THEN "Low to moderate"
    ELSE "Significant"

elderly_band(elderly_pressure) ==
    IF Lt(elderly_pressure, Num(ExplElderlyMinimal)) THEN "Minimal"
    ELSE IF Lt(elderly_pressure, Num(ExplElderlyLow)) THEN "Low to moderate"
    ELSE "Notable"

explanation_for(r) ==
    LET risk_score       == coerce(r.service_stress_risk)
        bio_ratio        == coerce(r.biometric_to_enrolment_ratio)
        child_pressure   == coerce(r.child_update_pressure)
        elderly_pressure == coerce(r.elderly_update_pressure)
    IN  <<Line(0, "", "District Analysis", None),
          Line(0, risk_band(risk_score), "Overall Risk Assessment", None),
          Line(0, "", "Detailed Factor Analysis", None),
          Line(1, bio_band(bio_ratio), "Biometric-to-Enrollment Ratio", bio_ratio),
          Line(2, child_band(child_pressure), "Child Update Pressure", child_pressure),
          Line(3, elderly_band(elderly_pressure), "Elderly Update Pressure", elderly_pressure),
          Line(0, "", "Key Insight", None)>>

\* the body of the try block
risk_explanation_try(state, district, date) ==
    LET d == to_datetime(date) IN
    IF ~d.ok THEN Unhandled("ValueError")
    ELSE LET row == Lookup(state, district, d.day) IN
         IF Len(row) = 0
         THEN Ok([explanation |-> <<Line(0, "", "No data available", None)>>])
         ELSE Ok([explanation |-> explanation_for(row[1])])

\* the handler without its except clause: the fault leaves the handler
get_risk_explanation_no_except(state, district, date) ==
    risk_explanation_try(state, district, date)

get_risk_explanation(state, district, date) ==
    LET out == risk_explanation_try(state, district, date) IN
    IF out.status = 500
    THEN Ok([explanation |->
                <<Line(0, out.body.detail, "Unable to generate explanation", None)>>])
    ELSE out

----------------------------------------------------------------------------
(* Static facts and export *)

\* units: mae, rmse 0.0001; spearman 0.001; stability 0.1
get_model_stats == Ok([mae |-> 1, rmse |-> 3, spearman |-> 999, stability |-> 1000])

\* df.groupby("district").agg({...: "mean"}).reset_index()
ranked_df ==
    LET keys == GroupKeys(df) IN
    [i \in 1..Len(keys) |->
        LET g == SelectSeq(df, LAMBDA r : r.district = keys[i]) IN
        [district                     |-> keys[i],
         service_stress_risk          |-> mean(g, "service_stress_risk"),
         biometric_to_enrolment_ratio |-> mean(g, "biometric_to_enrolment_ratio"),
         child_update_pressure        |-> mean(g, "child_update_pressure"),
         elderly_update_pressure      |-> mean(g, "elderly_update_pressure")]]

\* the handler without its "except HTTPException: raise"
download_ranked_data_no_reraise(fault, p) ==
    IF Len(df) = 0 THEN HTTPException(500, "Dataset is empty")
    ELSE IF fault = "agg" THEN HTTPException(500, "agg")
    ELSE IF Len(ranked_df) = 0 THEN HTTPException(500, "No ranked data available")
    ELSE IF fault = "csv" THEN HTTPException(500, "csv")
    ELSE Ok([csv |-> [i \in 1..Len(ranked_df) |-> ranked_df[p[i]]]])

\* fault: an exception raised while grouping ("agg") or while writing the CSV
\* ("csv"), "none" when neither raises.  HTTPException is re-raised as it is;
\* any other exception becomes HTTPException(500).
download_ranked_data(fault, p) ==
    IF Len(df) = 0 THEN HTTPException(400, "Dataset is empty")
    ELSE IF fault = "agg" THEN HTTPException(500, "agg")
    ELSE IF Len(ranked_df) = 0 THEN HTTPException(400, "No ranked data available")
    ELSE IF fault = "csv" THEN HTTPException(500, "csv")
    ELSE Ok([csv |-> [i \in 1..Len(ranked_df) |-> ranked_df[p[i]]]])

----------------------------------------------------------------------------
(* Requests *)

ReqStates == {"S1", "S2"}

ReqDistricts == {"A", "B"}

\* largest limit a request carries; limits start at -1
MaxLimit == 3

Limits == -1..MaxLimit

\* largest risk score, unit 0.0001, passed to /risk-verdict
MaxScore == 320

Scores == {Num(n) : n \in (0 - MaxScore)..MaxScore} \cup {NaN}

BoundaryScores == {NaN, Num(0), Num(99), Num(100), Num(299), Num(300)}

Faults == {"none", "agg", "csv"}

Reply(endpoint, args, out) ==
    [endpoint |-> endpoint, args |-> args, status |-> out.status, body |-> out.body]

GetStates ==
    /\ resp' = Reply("states", <<>>, get_states)
    /\ UNCHANGED df

GetDistricts ==
    \E state \in ReqStates :
        /\ resp' = Reply("districts", <<state>>, get_districts(state))
        /\ UNCHANGED df

GetDates ==
    \E state \in ReqStates, district \in ReqDistricts :
        /\ resp' = Reply("dates", <<state, district>>, get_dates(state, district))
        /\ UNCHANGED df

GetRisk ==
    \E state \in ReqStates, district \in ReqDistricts, date \in DateStrings :
        /\ resp' = Reply("risk", <<state, district, date>>, get_risk(state, district, date))
        /\ UNCHANGED df

GetRiskVerdictOn(inputs) ==
    \E risk_score \in inputs :
        /\ resp' = Reply("risk-verdict", <<risk_score>>, get_risk_verdict(risk_score))
        /\ UNCHANGED df

GetRiskVerdict == GetRiskVerdictOn(BoundaryScores)

GetRiskVerdictAll == GetRiskVerdictOn(Scores)

GetRiskPercentile ==
    \E state \in ReqStates, district \in ReqDistricts, date \in DateStrings :
        /\ resp' = Reply("risk-percentile", <<state, district, date>>,
                         get_risk_percentile(state, district, date))
        /\ UNCHANGED df

GetTopDistricts ==
    \E limit \in Limits :
        \E p \in sort_values_desc(Column(groupby_mean(df, "service_stress_risk"), "avg")) :
            /\ resp' = Reply("top-districts", <<limit>>, get_top_districts(limit, p))
            /\ UNCHANGED df

GetDistrictHotspots ==
    \E state \in ReqStates, limit \in Limits :
        \E p \in sort_values_desc(Column(groupby_mean(
                    SelectSeq(df, LAMBDA r : StrEq(r.state, state)),
                    "service_stress_risk"), "avg")) :
            /\ resp' = Reply("district-hotspots", <<state, limit>>,
                             get_district_hotspots(state, limit, p))
            /\ UNCHANGED df

\* the trend computed by sorting the table itself (inplace=True)
GetRiskTrendInPlace ==
    \E state \in ReqStates, district \in ReqDistricts :
        \E p \in sort_values_date(trend_data(state, district)), q \in sort_values_date(df) :
            /\ resp' = Reply("risk-trend", <<state, district>>,
                             get_risk_trend(state, district, p))
            /\ df' = [i \in 1..Len(df) |-> df[q[i]]]

GetRiskTrend ==
    \E state \in ReqStates, district \in ReqDistricts :
        \E p \in sort_values_date(trend_data(state, district)) :
            /\ resp' = Reply("risk-trend", <<state, district>>,
                             get_risk_trend(state, district, p))
            /\ UNCHANGED df

GetPolicyRecommendation ==
    \E state \in ReqStates, district \in ReqDistricts, date \in DateStrings :
        /\ resp' = Reply("policy-recommendation", <<state, district, date>>,
                         get_policy_recommendation(state, district, date))
        /\ UNCHANGED df

GetRiskExplanation ==
    \E state \in ReqStates, district \in ReqDistricts, date \in DateStrings :
        /\ resp' = Reply("risk-explanation", <<state, district, date>>,
                         get_risk_explanation(state, district, date))
        /\ UNCHANGED df

GetModelStats ==
    /\ resp' = Reply("model-stats", <<>>, get_model_stats)
    /\ UNCHANGED df

DownloadRankedData ==
    \E fault \in Faults :
        \E p \in sort_values_desc(Column(ranked_df, "service_stress_risk")) :
            /\ resp' = Reply("download-ranked-data", <<fault>>, download_ranked_data(fault, p))
            /\ UNCHANGED df

----------------------------------------------------------------------------
(* The table after load *)

Row(state, district, date, risk, bio, child, elderly) ==
    [state |-> state, district |-> district, date |-> date,
     service_stress_risk          |-> risk,
     biometric_to_enrolment_ratio |-> bio,
     child_update_pressure        |-> child,
     elderly_update_pressure      |-> elderly]

Tables(rows, n) == UNION {[1..k -> rows] : k \in 0..n}

\* rows of the whole-service specification
MaxRows == 2

GeoRows ==
    {Row(g[1], g[2], day, risk, NaN, Num(60), NaN) :
        g \in {<<"S1", "A">>, <<"S2", "B">>}, day \in Days, risk \in {NaN, Num(300)}}

Init ==
    /\ df \in Tables(GeoRows, MaxRows)
    /\ resp = NoResponse

Next ==
    \/ GetStates
    \/ GetDistricts
    \/ GetDates
    \/ GetRisk
    \/ GetRiskVerdict
    \/ GetRiskPercentile
    \/ GetTopDistricts
    \/ GetDistrictHotspots
    \/ GetRiskTrend
    \/ GetPolicyRecommendation
    \/ GetRiskExplanation
    \/ GetModelStats
    \/ DownloadRankedData

Spec == Init /\ [][Next]_vars

----------------------------------------------------------------------------
(* /risk-verdict over a range of scores *)

InitVerdict ==
    /\ df \in Tables(GeoRows, 1)
    /\ resp = NoResponse

NextVerdict == GetRiskVerdictAll

SpecVerdict == InitVerdict /\ [][NextVerdict]_vars

----------------------------------------------------------------------------
(* /risk-percentile: rows of two districts on two dates, with equal and     *)
(* missing risk scores and repeated keys                                    *)

MaxPctRows == 3

PctRows ==
    {Row(g[1], g[2], day, risk, NaN, NaN, NaN) :
        g \in {<<"S1", "A">>, <<"S2", "B">>}, day \in Days,
        risk \in {NaN, Num(100), Num(300)}}

InitPct ==
    /\ df \in Tables(PctRows, MaxPctRows)
    /\ resp = NoResponse

NextPct == GetRiskPercentile

SpecPct == InitPct /\ [][NextPct]_vars

----------------------------------------------------------------------------
(* /top-districts and /download-ranked-data: up to three districts and rows *)
(* without a district                                                       *)

MaxTopRows == 3

TopRows ==
    {Row("S1", district, 1, risk, NaN, Num(60), Num(120)) :
        district \in {"A", "B", "C", NaNStr}, risk \in {NaN, Num(100), Num(300)}}

InitTop ==
    /\ df \in Tables(TopRows, MaxTopRows)
    /\ resp = NoResponse

NextTop == GetTopDistricts

SpecTop == InitTop /\ [][NextTop]_vars

NextExport == DownloadRankedData

SpecExport == InitTop /\ [][NextExport]_vars

----------------------------------------------------------------------------
(* The templaters: one row of every combination of bands of the four        *)
(* fields, alone or behind a row of another district                        *)

TemplRows ==
    {Row("S1", "A", 1, risk, bio, child, elderly) :
        risk    \in {NaN, Num(RiskHigh), Num(RiskCritical), Num(RiskCritical + 1)},
        bio     \in {NaN, Num(BioMedium), Num(BioHigh), Num(BioHigh + 1)},
        child   \in {NaN, Num(ChildLow), Num(ChildMedium), Num(ChildMedium + 1)},
        elderly \in {NaN, Num(ElderlyLow), Num(ElderlyMedium), Num(ElderlyMedium + 1)}}

OtherRow == Row("S2", "B", 1, Num(RiskCritical + 1), Num(BioHigh + 1), NaN, NaN)

InitTempl ==
    /\ df \in {<<r>> : r \in TemplRows} \cup {<<OtherRow, r>> : r \in TemplRows}
    /\ resp = NoResponse

NextTempl ==
    \/ GetPolicyRecommendation
    \/ GetRiskExplanation
    \/ GetRisk

SpecTempl == InitTempl /\ [][NextTempl]_vars

----------------------------------------------------------------------------
(* The four lookups on a table with repeated keys: rows of the key          *)
(* (S1, A, 2024-01-01) that differ in every field, next to a row of another *)
(* date and a row of another district                                       *)

MaxDupRows == 2

DupRows ==
    {Row("S1", "A", 1, risk, f[1], f[2], f[3]) :
        risk \in {NaN, Num(50), Num(260), Num(RiskCritical + 1)},
        f    \in {<<NaN, Num(60), Num(5)>>,
                  <<Num(BioHigh + 1), Num(ChildMedium + 1), Num(ElderlyMedium + 1)>>}}
    \cup {Row("S1", "A", 2, Num(50), NaN, NaN, NaN),
          Row("S2", "B", 1, Num(100), Num(BioMedium + 1), NaN, Num(60))}

InitDup ==
    /\ df \in Tables(DupRows, MaxDupRows)
    /\ resp = NoResponse

NextDup ==
    \/ GetRisk
    \/ GetRiskPercentile
    \/ GetPolicyRecommendation
    \/ GetRiskExplanation

SpecDup == InitDup /\ [][NextDup]_vars

----------------------------------------------------------------------------
(* Properties *)

\* p is the fraction n/d rounded to the nearest integer
IsRounded(p, n, d) == (p * d - n) * 2 <= d /\ (n - p * d) * 2 <= d

\* C1: the verdict of /risk-verdict is a step function of the score alone:
\* LOW below 0.01, MEDIUM from 0.01 to below 0.03, HIGH from 0.03 on (0.0099,
\* 0.01, 0.0299, 0.03 give LOW, MEDIUM, MEDIUM, HIGH), and every score gets
\* exactly one verdict.
VerdictIsStepFunction ==
    resp.endpoint = "risk-verdict" =>
        LET x == resp.args[1]
            v == resp.body.verdict
        IN  /\ resp.status = 200
            /\ v \in {"LOW", "MEDIUM", "HIGH"}
            /\ x.k = "num" =>
                /\ (x.v < 100 <=> v = "LOW")
                /\ (100 <= x.v /\ x.v < 300 <=> v = "MEDIUM")
                /\ (x.v >= 300 <=> v = "HIGH")
            /\ (x = Num(99) => v = "LOW")
            /\ (x = Num(100) => v = "MEDIUM")
            /\ (x = Num(299) => v = "MEDIUM")
            /\ (x = Num(300) => v = "HIGH")

VerdictAtBoundary ==
    /\ resp.endpoint = "risk-verdict"
    /\ resp.args[1] = Num(100)
    /\ resp.body.verdict = "MEDIUM"

\* the request of a lookup response names a parseable date
ReqDay == to_datetime(resp.args[3])

\* the indexes of the rows of df with the state, district and date of the
\* request
Matching ==
    {i \in 1..Len(df) : /\ df[i].state = resp.args[1]
                        /\ df[i].district = resp.args[2]
                        /\ ReqDay.ok /\ df[i].date = ReqDay.day}

FirstMatch == CHOOSE i \in Matching : \A j \in Matching : i <= j

\* the indexes of the rows of the date of the request
OnDate == {i \in 1..Len(df) : ReqDay.ok /\ df[i].date = ReqDay.day}

\* C2 as stated: when the row of the request carries the maximum risk_score
\* of its date, the percentile is 100 * (N - 1) / N rounded to one decimal,
\* N the number of rows of that date.
PercentileOfMaximum ==
    (/\ resp.endpoint = "risk-percentile"
     /\ Cardinality(Matching) = 1
     /\ df[FirstMatch].service_stress_risk.k = "num"
     /\ \A j \in OnDate : ~Gt(df[j].service_stress_risk, df[FirstMatch].service_stress_risk))
    => /\ resp.status = 200
       /\ IsRounded(resp.body.percentile, 1000 * (Cardinality(OnDate) - 1), Cardinality(OnDate))

\* C2 amended: when the risk_score of the row of the request is present and
\* strictly greater than that of every other row of its date, none of them
\* missing, the percentile is 100 * (N - 1) / N rounded to one decimal.
PercentileOfStrictMaximum ==
    (/\ resp.endpoint = "risk-percentile"
     /\ Matching # {}
     /\ df[FirstMatch].service_stress_risk.k = "num"
     /\ \A j \in OnDate \ {FirstMatch} :
            Lt(df[j].service_stress_risk, df[FirstMatch].service_stress_risk))
    => /\ resp.status = 200
       /\ IsRounded(resp.body.percentile, 1000 * (Cardinality(OnDate) - 1), Cardinality(OnDate))

StrictMaximumOfThree ==
    /\ resp.endpoint = "risk-percentile"
    /\ Matching # {}
    /\ Cardinality(OnDate) = 3
    /\ \A j \in OnDate \ {FirstMatch} :
            Lt(df[j].service_stress_risk, df[FirstMatch].service_stress_risk)
    /\ resp.body.percentile = 667

----------------------------------------------------------------------------
(* Ranking properties *)

RECURSIVE RiskSum(_)
RiskSum(S) ==
    IF S = {} THEN 0
    ELSE LET i == CHOOSE x \in S : TRUE
         IN  df[i].service_stress_risk.v + RiskSum(S \ {i})

\* the rows the ranking of a response covers: all rows for /top-districts,
\* the rows of the state for /district-hotspots
Covered ==
    IF resp.endpoint = "district-hotspots"
    THEN {i \in 1..Len(df) : df[i].state = resp.args[1]}
    ELSE 1..Len(df)

RankedDistricts == {df[i].district : i \in Covered} \ {NaNStr}

\* the rows of a district that carry a risk_score
Scored(d) == {i \in Covered : df[i].district = d /\ df[i].service_stress_risk.k = "num"}

\* the mean of d1 is at least the mean of d2, both having one
MeanAtLeast(d1, d2) ==
    RiskSum(Scored(d1)) * Cardinality(Scored(d2)) >= RiskSum(Scored(d2)) * Cardinality(Scored(d1))

\* every entry of districts with a risk_score carries their mean over the
\* rows that have one, rounded to 4 decimals
EntriesAreMeans(body) ==
    \A i \in 1..Len(body) :
        LET d == body[i].district IN
        /\ d \in RankedDistricts
        /\ Scored(d) # {} =>
            /\ body[i].average_risk.k = "num"
            /\ IsRounded(body[i].average_risk.v, RiskSum(Scored(d)), Cardinality(Scored(d)))

ExportStatusClasses ==
    resp.endpoint = "download-ranked-data" =>
        LET empty  == Len(df) = 0
            norows == \A i \in 1..Len(df) : df[i].district = NaNStr
            fails  == resp.args[1] # "none"
        IN  /\ empty => resp.status \in 400..499
            /\ (~empty /\ (norows \/ fails)) => resp.status \in 500..599
            /\ (~empty /\ ~norows /\ ~fails) => resp.status = 200

\* C6 amended: /download-ranked-data fails with status 400 when the table is
\* empty and also when the grouping yields no rows (no row has a district),
\* with status 500 when the grouping or the writing of the CSV raises, and
\* returns the CSV, one row per district, otherwise.
ExportStatus ==
    resp.endpoint = "download-ranked-data" =>
        LET empty  == Len(df) = 0
            norows == \A i \in 1..Len(df) : df[i].district = NaNStr
            D      == {df[i].district : i \in 1..Len(df)} \ {NaNStr}
        IN  IF empty THEN resp.status = 400
            ELSE IF resp.args[1] = "agg" THEN resp.status = 500
            ELSE IF norows THEN resp.status = 400
            ELSE IF resp.args[1] = "csv" THEN resp.status = 500
            ELSE /\ resp.status = 200
                 /\ {resp.body.csv[i].district : i \in 1..Len(resp.body.csv)} = D
                 /\ Len(resp.body.csv) = Cardinality(D)

ExportNoRankedData ==
    /\ resp.endpoint = "download-ranked-data"
    /\ Len(df) > 0
    /\ \A i \in 1..Len(df) : df[i].district = NaNStr
    /\ resp.args[1] = "none"
    /\ resp.status = 400
    /\ resp.body.detail = "No ranked data available"

----------------------------------------------------------------------------
(* Templater properties *)

\* the numbered blocks of the recommendation of a response, in text order
RecBlocks == SelectSeq(resp.body.recommendation, LAMBDA l : l.idx >= 1)

\* a field of the matched row, a missing one taken as 0
Field0(col) ==
    IF df[FirstMatch][col].k = "num" THEN df[FirstMatch][col].v ELSE 0

\* the field a block of the recommendation is about
FieldOf(title) ==
    CASE title \in {"Infrastructure Capacity Enhancement",
                    "Staffing and Resource Optimization"}     -> "bio_ratio"
      [] title \in {"Specialized Child Services Centers",
                    "Child Services Enhancement"}             -> "child_pressure"
      [] title \in {"Elderly-Focused Service Centers",
                    "Elderly Services Improvement"}           -> "elderly_pressure"
      [] title \in {"Emergency Service Review",
                    "Service Load Balancing"}                 -> "risk_score"
      [] OTHER                                                -> "none"

FieldRank(title) ==
    CASE FieldOf(title) = "bio_ratio"        -> 1
      [] FieldOf(title) = "child_pressure"   -> 2
      [] FieldOf(title) = "elderly_pressure" -> 3
      [] OTHER                               -> 0

\* C4: for a matched row with risk_score > 0.04 and bio_ratio > 8 the
\* recommendation has a CRITICAL block from the risk score, numbered 1, and a
\* HIGH block from bio_ratio after it; whenever risk_score > 0.025 block 1 is
\* the urgency block (CRITICAL above 0.04, else HIGH) and the blocks after it
\* are in the order bio_ratio, child_pressure, elderly_pressure.
UrgencyBlockFirst ==
    (resp.endpoint = "policy-recommendation" /\ Matching # {}) =>
        LET B    == RecBlocks
            risk == Field0("service_stress_risk")
            bio  == Field0("biometric_to_enrolment_ratio")
        IN  /\ resp.status = 200
            /\ \A i \in 1..Len(B) : B[i].idx = i
            /\ (risk > 400 /\ bio > 800) =>
                /\ B[1].tag = "CRITICAL" /\ FieldOf(B[1].text) = "risk_score"
                /\ \E j \in 2..Len(B) : B[j].tag = "HIGH" /\ FieldOf(B[j].text) = "bio_ratio"
            /\ risk > 250 =>
                /\ B[1].tag = (IF risk > 400 THEN "CRITICAL" ELSE "HIGH")
                /\ FieldOf(B[1].text) = "risk_score"
                /\ \A j \in 2..Len(B) : FieldRank(B[j].text) >= 1
                /\ \A i, j \in 2..Len(B) : i < j => FieldRank(B[i].text) < FieldRank(B[j].text)

CriticalBeforeFieldBlocks ==
    /\ resp.endpoint = "policy-recommendation"
    /\ Matching # {}
    /\ Field0("service_stress_risk") > 400
    /\ Field0("biometric_to_enrolment_ratio") > 800
    /\ Len(RecBlocks) = 4
    /\ RecBlocks[1].tag = "CRITICAL"
    /\ RecBlocks[2].tag = "HIGH"
    /\ FieldOf(RecBlocks[4].text) = "elderly_pressure"

\* C10: for a matched row the recommendation holds the INFORMATIONAL "Maintain
\* Current Standards" block exactly when no threshold is exceeded (bio_ratio
\* <= 5, child_pressure <= 0.005, elderly_pressure <= 0.005, risk_score <=
\* 0.025, a missing field taken as 0); that block is then the only one; and
\* there are always 1 to 4 blocks, no two about the same field.
DefaultBlockIffNoneFired ==
    (resp.endpoint = "policy-recommendation" /\ Matching # {}) =>
        LET B    == RecBlocks
            info == {i \in 1..Len(B) : /\ B[i].tag = "INFORMATIONAL"
                                       /\ B[i].text = "Maintain Current Standards"}
        IN  /\ info # {} <=> /\ Field0("biometric_to_enrolment_ratio") <= 500
                             /\ Field0("child_update_pressure") <= 50
                             /\ Field0("elderly_update_pressure") <= 50
                             /\ Field0("service_stress_risk") <= 250
            /\ info # {} => Len(B) = 1
            /\ Len(B) >= 1 /\ Len(B) <= 4
            /\ \A i, j \in 1..Len(B) : i # j => FieldOf(B[i].text) # FieldOf(B[j].text)

DefaultBlockAtThresholds ==
    /\ resp.endpoint = "policy-recommendation"
    /\ Matching # {}
    /\ Field0("biometric_to_enrolment_ratio") = 500
    /\ Field0("child_update_pressure") = 50
    /\ Field0("elderly_update_pressure") = 50
    /\ Field0("service_stress_risk") = 250
    /\ Len(RecBlocks) = 1
    /\ RecBlocks[1].tag = "INFORMATIONAL"

\* C7: /policy-recommendation and /risk-explanation answer every request,
\* one whose lookup faults included, with a normal result carrying a text; a
\* fault becomes a text that describes it.
TemplatersAlwaysReturnText ==
    /\ resp.endpoint = "policy-recommendation" =>
        /\ resp.status = 200
        /\ DOMAIN resp.body = {"recommendation"}
        /\ Len(resp.body.recommendation) >= 1
        /\ ~ReqDay.ok =>
            /\ Len(resp.body.recommendation) = 1
            /\ resp.body.recommendation[1].text = "Unable to generate recommendation"
            /\ resp.body.recommendation[1].tag = "ValueError"
    /\ resp.endpoint = "risk-explanation" =>
        /\ resp.status = 200
        /\ DOMAIN resp.body = {"explanation"}
        /\ Len(resp.body.explanation) >= 1
        /\ ~ReqDay.ok =>
            /\ Len(resp.body.explanation) = 1
            /\ resp.body.explanation[1].text = "Unable to generate explanation"
            /\ resp.body.explanation[1].tag = "ValueError"

FaultBecomesText ==
    /\ resp.endpoint = "risk-explanation"
    /\ resp.args[3] = "junk"
    /\ resp.status = 200
    /\ resp.body.explanation[1].text = "Unable to generate explanation"

----------------------------------------------------------------------------
(* Whole-service properties *)

\* C5 as stated: /risk for a (state, district, date) that is not in the table
\* returns the {error: ...} payload as a normal result, never a server error,
\* whatever the three parameters are.
RiskNotFoundIsPayload ==
    (resp.endpoint = "risk" /\ Matching = {}) =>
        /\ resp.status = 200
        /\ resp.body = [error |-> "No data found"]

\* C8: no handler changes the table: every step leaves every row and every
\* field of df as it was, whatever the request and its outcome.
TableUnchanged == [][df' = df]_vars

TrendOfUnsortedTable ==
    /\ resp.endpoint = "risk-trend"
    /\ Len(df) = 2
    /\ df[1].date = 2 /\ df[2].date = 1
    /\ df[1].state = resp.args[1] /\ df[2].state = resp.args[1]
    /\ df[1].district = resp.args[2] /\ df[2].district = resp.args[2]
    /\ resp.status = 200
    /\ resp.body.data[1].date = "2024-01-01"
    /\ resp.body.data[2].date = "2024-01-02"

\* the rows of the state and district of a /risk-trend request
TrendRows == {i \in 1..Len(df) : df[i].state = resp.args[1] /\ df[i].district = resp.args[2]}

\* a reported value is null exactly when the cell is missing, and is the
\* cell's number otherwise
NullIffMissing(out, cell) ==
    /\ out = None <=> cell.k = "nan"
    /\ cell.k = "num" => out = cell
    /\ out.k # "nan"

\* C9 as stated: outside the templaters a missing number is reported as null
\* and never as a number: each of the four fields of /risk is null exactly when
\* it is missing in the matched row, each /risk-trend entry has a null
\* risk_score exactly when the row's is missing, and /top-districts and
\* /district-hotspots report a null average for a district whose risk_scores
\* are all missing.
MissingIsNull ==
    /\ (resp.endpoint = "risk" /\ Matching # {}) =>
        /\ resp.status = 200
        /\ NullIffMissing(resp.body.risk_score, df[FirstMatch].service_stress_risk)
        /\ NullIffMissing(resp.body.bio_ratio, df[FirstMatch].biometric_to_enrolment_ratio)
        /\ NullIffMissing(resp.body.child_pressure, df[FirstMatch].child_update_pressure)
        /\ NullIffMissing(resp.body.elderly_pressure, df[FirstMatch].elderly_update_pressure)
    /\ (resp.endpoint = "risk-trend" /\ TrendRows # {}) =>
        /\ resp.status = 200
        /\ Len(resp.body.data) = Cardinality(TrendRows)
        /\ \A day \in Days :
            Cardinality({i \in 1..Len(resp.body.data) :
                            /\ resp.body.data[i].date = DateStr(day)
                            /\ resp.body.data[i].risk_score = None})
            = Cardinality({i \in TrendRows : df[i].date = day /\ isna(df[i].service_stress_risk)})
        /\ \A i \in 1..Len(resp.body.data) : resp.body.data[i].risk_score # NaN
    /\ resp.endpoint \in {"top-districts", "district-hotspots"} =>
        \A i \in 1..Len(resp.body) :
            Scored(resp.body[i].district) = {} => resp.body[i].average_risk = None

----------------------------------------------------------------------------
(* Repeated keys *)

LookupEndpoints == {"risk", "risk-percentile", "policy-recommendation", "risk-explanation"}

\* the request of a lookup response matches several rows of the table
RepeatedKey == resp.endpoint \in LookupEndpoints /\ Cardinality(Matching) >= 2

\* the rows of the date of the request with a risk_score below x
LowerOnDate(x) ==
    {j \in OnDate : df[j].service_stress_risk.k = "num" /\ df[j].service_stress_risk.v < x}

\* the recommendation of a response has a block of this priority and title
HasBlock(tag, title) ==
    \E i \in 1..Len(RecBlocks) : RecBlocks[i].tag = tag /\ RecBlocks[i].text = title

\* C11: when several rows share the (state, district, date) of a request,
\* /risk, /risk-percentile, /policy-recommendation and /risk-explanation all
\* answer from the first matching row in table order: /risk reports its four
\* fields, /risk-percentile ranks its risk_score among the rows of the date,
\* the recommendation and the explanation apply their thresholds to its
\* fields (a missing one taken as 0), so the four handlers never disagree
\* about the risk_score of the triple.
FirstMatchingRowIsUsed ==
    RepeatedKey =>
        LET r       == df[FirstMatch]
            risk    == Field0("service_stress_risk")
            bio     == Field0("biometric_to_enrolment_ratio")
            child   == Field0("child_update_pressure")
            elderly == Field0("elderly_update_pressure")
        IN  /\ resp.status = 200
            /\ resp.endpoint = "risk" =>
                /\ NullIffMissing(resp.body.risk_score, r.service_stress_risk)
                /\ NullIffMissing(resp.body.bio_ratio, r.biometric_to_enrolment_ratio)
                /\ NullIffMissing(resp.body.child_pressure, r.child_update_pressure)
                /\ NullIffMissing(resp.body.elderly_pressure, r.elderly_update_pressure)
            /\ resp.endpoint = "risk-percentile" =>
                IF r.service_stress_risk.k = "nan"
                THEN resp.body = [percentile |-> 0, comparison |-> "No data"]
                ELSE /\ resp.body.comparison = "Riskier than"
                     /\ IsRounded(resp.body.percentile,
                                  1000 * Cardinality(LowerOnDate(risk)), Cardinality(OnDate))
            /\ resp.endpoint = "policy-recommendation" =>
                /\ HasBlock("CRITICAL", "Emergency Service Review") <=> risk > 400
                /\ HasBlock("HIGH", "Service Load Balancing") <=> (risk > 250 /\ risk <= 400)
                /\ HasBlock("HIGH", "Infrastructure Capacity Enhancement") <=> bio > 800
                /\ HasBlock("MEDIUM", "Staffing and Resource Optimization")
                        <=> (bio > 500 /\ bio <= 800)
                /\ HasBlock("MEDIUM", "Specialized Child Services Centers") <=> child > 100
                /\ HasBlock("LOW", "Child Services Enhancement") <=> (child > 50 /\ child <= 100)
                /\ HasBlock("MEDIUM", "Elderly-Focused Service Centers") <=> elderly > 100
                /\ HasBlock("LOW", "Elderly Services Improvement")
                        <=> (elderly > 50 /\ elderly <= 100)
                /\ \A i \in 1..Len(RecBlocks) :
                        /\ FieldOf(RecBlocks[i].text) = "bio_ratio" => RecBlocks[i].value = Num(bio)
                        /\ RecBlocks[i].tag = "MEDIUM" /\ FieldOf(RecBlocks[i].text) = "child_pressure"
                                => RecBlocks[i].value = Num(child)
                        /\ RecBlocks[i].tag = "MEDIUM" /\ FieldOf(RecBlocks[i].text) = "elderly_pressure"
                                => RecBlocks[i].value = Num(elderly)
            /\ resp.endpoint = "risk-explanation" =>
                LET E == resp.body.explanation IN
                /\ Len(E) = 7
                /\ E[2].tag = (IF risk < 10 THEN "exceptionally low"
                               ELSE IF risk < 100 THEN "low"
                               ELSE IF risk < 300 THEN "moderate" ELSE "significant")
                /\ E[4].value = Num(bio)
                /\ E[5].value = Num(child)
                /\ E[6].value = Num(elderly)

\* two rows of one key, the first exceeding the lower child threshold only and
\* the second every upper threshold: the recommendation has the one block of
\* the first row
LaterRowIgnored ==
    /\ resp.endpoint = "policy-recommendation"
    /\ Cardinality(Matching) = 2
    /\ FirstMatch = 1
    /\ df[1].service_stress_risk = Num(50)
    /\ df[1].biometric_to_enrolment_ratio = NaN
    /\ df[2].service_stress_risk = Num(401)
    /\ df[2].biometric_to_enrolment_ratio = Num(801)
    /\ Len(RecBlocks) = 1
    /\ RecBlocks[1].tag = "LOW"

====
